---------------------------- MODULE Spec2Model ----------------------------
(***************************************************************************)
(* Sliding-window rate limiter: src/Rate Limiter/task3_rate_limiter.py.    *)
(*                                                                         *)
(* Time is counted in ticks.  Grain ticks make one hundredth of a second,  *)
(* the resolution round(x, 2) keeps, so a timestamp or a window need not   *)
(* lie on the rounding grid and round(x, 2) is not the identity.           *)
(***************************************************************************)
EXTENDS Integers, Sequences, FiniteSets, TLC

VARIABLES
    constructed,      \* whether RateLimiter(...) has returned an instance
    max_requests,     \* self.max_requests
    window_seconds,   \* self.window_seconds (in ticks)
    requests,         \* self._requests: user_id -> deque of timestamps
    call,             \* the call made last: op, user_id, current_time
    ret,              \* what that call returned
    admitted,         \* history: per key, the timestamps admitted since its record was last discarded
    solo,             \* history: per key, the record of a limiter that sees this key's calls only
    granted,          \* history: per key, the admitted timestamps in order since the last discard
    streak,           \* history: per key, the is_allowed calls made since the key was fresh
    latest,           \* history: per key, the timestamp of the last timed call on it
    dropped,          \* history: how many keys and stored timestamps the last call removed
    serial,           \* history: the key map and the last result of the calls run one by one in the order of the lock
    lock,             \* self._lock: the thread that holds it, or Free
    pc,               \* per thread, the place in the method it runs
    frame,            \* per thread, the arguments and locals of the call it runs
    now,              \* the time: the timestamp concurrent callers supply, or the system clock they read
    before,           \* history: per key, its unexpired entries when the callers took up timestamp now
    allowedNow        \* history: per key, the calls admitted with timestamp now

config  == <<constructed, max_requests, window_seconds>>
program == <<requests, call, ret>>
history == <<admitted, solo, granted, streak, latest, dropped, serial>>
threads == <<lock, pc, frame, now, before, allowedNow>>
vars    == <<config, program, history, threads>>

---------------------------------------------------------------------------
(* Bounds of the model *)

MaxQuota  == 2      \* max_requests ranges over 1..MaxQuota
MaxWindow == 2      \* window_seconds ranges over 1..MaxWindow ticks
MaxTime   == 2      \* timestamps range over 0..MaxTime ticks
NumThreads == 2     \* concurrent callers

Grain == 3          \* ticks per 0.01 s: the grid of round(x, 2)

MinArg == -1        \* the least argument handed to the constructor

ExampleQuota  == 5  \* RateLimiter(max_requests=5, window_seconds=60),
ExampleWindow == 60 \* the limiter of the tests and of the examples: 60 seconds

\* seconds in ticks
Seconds(x) == x * 100 * Grain

Keys  == {"alice", "bob"}
Times == 0 .. MaxTime
Threads == 1 .. NumThreads
Free == 0

None == [value |-> "None"]

\* a thread that runs no call
NoFrame == [op |-> "none", user_id |-> "", current_time |-> 0,
            cutoff_time |-> 0, request_count |-> 0, ret |-> None]

---------------------------------------------------------------------------
(* Pure helpers *)

Max(a, b) == IF a >= b THEN a ELSE b

\* round(x, 2): the nearest multiple of Grain (Grain is odd: no ties)
Round2(x) == ((2 * x + Grain) \div (2 * Grain)) * Grain

\* faulty variant: "if" for "while", a single popleft()
EvictOnce(user_requests, cutoff_time) ==
    IF user_requests # <<>> /\ Head(user_requests) < cutoff_time
    THEN Tail(user_requests)
    ELSE user_requests

\* faulty variant: "<=" for "<", an entry equal to the cutoff is dropped too
RECURSIVE EvictInclusive(_, _)
EvictInclusive(user_requests, cutoff_time) ==
    IF user_requests # <<>> /\ Head(user_requests) <= cutoff_time
    THEN EvictInclusive(Tail(user_requests), cutoff_time)
    ELSE user_requests

\* the while loop: popleft() as long as the front entry is older than the cutoff
RECURSIVE Evict(_, _)
Evict(user_requests, cutoff_time) ==
    IF user_requests # <<>> /\ Head(user_requests) < cutoff_time
    THEN Evict(Tail(user_requests), cutoff_time)
    ELSE user_requests

\* defaultdict(lambda: deque()): reading a missing key yields an empty deque
Lookup(reqs, user_id) ==
    IF user_id \in DOMAIN reqs THEN reqs[user_id] ELSE <<>>

\* ... and stores it; the deque is then mutated in place
Store(reqs, user_id, q) ==
    [u \in DOMAIN reqs \cup {user_id} |-> IF u = user_id THEN q ELSE reqs[u]]

\* faulty variant: the reset of one key clears the whole map
DiscardAll(reqs, user_id) == [u \in {} |-> <<>>]

\* faulty variant: self._requests[user_id].clear(), which leaves (or creates) an empty record
DiscardEntries(reqs, user_id) ==
    [u \in DOMAIN reqs \cup {user_id} |-> IF u = user_id THEN <<>> ELSE reqs[u]]

\* del self._requests[user_id], guarded by "if user_id in self._requests"
Discard(reqs, user_id) ==
    [u \in DOMAIN reqs \ {user_id} |-> reqs[u]]

\* self._requests.clear()
Cleared == [u \in {} |-> <<>>]

\* faulty variant: the check of window_seconds is missing
ConstructsQuotaOnly(mr, ws) == mr > 0

\* faulty variant: "<" for "<=" in both checks, so that 0 is accepted
ConstructsNonNegative(mr, ws) == mr >= 0 /\ ws >= 0

\* __init__ raises ValueError unless both arguments are positive
Constructs(mr, ws) == mr > 0 /\ ws > 0

---------------------------------------------------------------------------
(* is_allowed and get_status as functions of the key map *)

\* the key's deque after the eviction loop of is_allowed
Evicted(reqs, user_id, current_time) ==
    Evict(Lookup(reqs, user_id), current_time - window_seconds)

\* faulty variant: ">" for ">="
RejectsOffByOne(q) == Len(q) > max_requests

\* the decision of is_allowed: request_count >= self.max_requests rejects
Rejects(q) == Len(q) >= max_requests

\* faulty variant: the timestamp is appended before the decision, rejected or not
AfterIsAllowedAlways(reqs, user_id, current_time) ==
    Append(Evict(Lookup(reqs, user_id), current_time - window_seconds),
           current_time)

\* faulty variant: appendleft() for append()
AfterIsAllowedFront(reqs, user_id, current_time) ==
    LET q == Evict(Lookup(reqs, user_id), current_time - window_seconds)
    IN  IF Len(q) >= max_requests THEN q ELSE <<current_time>> \o q

\* the deque is_allowed leaves behind: the timestamp is appended on admission only
AfterIsAllowed(reqs, user_id, current_time) ==
    LET q == Evicted(reqs, user_id, current_time)
    IN  IF Rejects(q) THEN q ELSE Append(q, current_time)

\* faulty variant: the newest entry, user_requests[-1], is taken for the oldest
IsAllowedInfoNewest(reqs, user_id, current_time) ==
    LET q == Evict(Lookup(reqs, user_id), current_time - window_seconds)
        request_count == Len(q)
    IN  IF request_count >= max_requests /\ q = <<>>
        THEN [raises |-> "IndexError"]
        ELSE IF request_count >= max_requests
        THEN [allowed |-> FALSE,
              user_id |-> user_id,
              current_requests |-> request_count,
              max_requests |-> max_requests,
              window_seconds |-> window_seconds,
              time_until_reset |->
                  Round2(window_seconds - (current_time - q[Len(q)])),
              message |-> "Rate limit exceeded"]
        ELSE [allowed |-> TRUE,
              user_id |-> user_id,
              current_requests |-> request_count + 1,
              max_requests |-> max_requests,
              window_seconds |-> window_seconds,
              remaining_requests |-> max_requests - (request_count + 1),
              message |-> "Request allowed"]

\* the info dict is_allowed returns (message: its fixed part)
IsAllowedInfo(reqs, user_id, current_time) ==
    LET q == Evicted(reqs, user_id, current_time)
        request_count == Len(q)
    IN  IF Rejects(q) /\ q = <<>>
        THEN [raises |-> "IndexError"]      \* user_requests[0] of an empty deque
        ELSE IF Rejects(q)
        THEN [allowed |-> FALSE,
              user_id |-> user_id,
              current_requests |-> request_count,
              max_requests |-> max_requests,
              window_seconds |-> window_seconds,
              time_until_reset |->
                  Round2(window_seconds - (current_time - Head(q))),
              message |-> "Rate limit exceeded"]
        ELSE [allowed |-> TRUE,
              user_id |-> user_id,
              current_requests |-> request_count + 1,
              max_requests |-> max_requests,
              window_seconds |-> window_seconds,
              remaining_requests |-> max_requests - (request_count + 1),
              message |-> "Request allowed"]

\* faulty variant: "<=" for "<" in the is_allowed field
GetStatusInfoLenient(reqs, user_id, current_time) ==
    LET q == Evict(Lookup(reqs, user_id), current_time - window_seconds)
        request_count == Len(q)
        time_until_reset ==
            IF q # <<>>
            THEN Max(0, window_seconds - (current_time - Head(q)))
            ELSE 0
    IN  [user_id |-> user_id,
         current_requests |-> request_count,
         max_requests |-> max_requests,
         window_seconds |-> window_seconds,
         remaining_requests |-> max_requests - request_count,
         time_until_reset |-> Round2(time_until_reset),
         is_allowed |-> request_count <= max_requests]

\* the dict get_status returns
GetStatusInfo(reqs, user_id, current_time) ==
    LET q == Evicted(reqs, user_id, current_time)
        request_count == Len(q)
        time_until_reset ==
            IF q # <<>>
            THEN Max(0, window_seconds - (current_time - Head(q)))
            ELSE 0
    IN  [user_id |-> user_id,
         current_requests |-> request_count,
         max_requests |-> max_requests,
         window_seconds |-> window_seconds,
         remaining_requests |-> max_requests - request_count,
         time_until_reset |-> Round2(time_until_reset),
         is_allowed |-> request_count < max_requests]

---------------------------------------------------------------------------
(* The four operations, each one call made by a single caller *)

\* RateLimiter(mr, ws): the checks in the order of __init__, then the fields
New(mr, ws) ==
    /\ ~constructed
    /\ call' = [op |-> "new", max_requests |-> mr, window_seconds |-> ws]
    /\ IF Constructs(mr, ws)
       THEN /\ constructed' = TRUE
            /\ max_requests' = mr
            /\ window_seconds' = ws
            /\ requests' = Cleared
            /\ lock' = Free
            /\ ret' = None
       ELSE /\ ret' = [raises |-> "ValueError",
                      message |-> IF mr <= 0
                                  THEN "max_requests must be positive"
                                  ELSE "window_seconds must be positive"]
            /\ UNCHANGED <<config, requests, lock>>
    /\ UNCHANGED <<history, pc, frame, now, before, allowedNow>>

IsAllowed(user_id, current_time) ==
    /\ requests' = Store(requests, user_id,
                         AfterIsAllowed(requests, user_id, current_time))
    /\ ret' = IsAllowedInfo(requests, user_id, current_time)
    /\ call' = [op |-> "is_allowed", user_id |-> user_id,
                current_time |-> current_time]
    /\ UNCHANGED <<config, threads>>

\* faulty variant: the status query is recorded as a request
GetStatusRecords(user_id, current_time) ==
    /\ requests' = Store(requests, user_id,
                         AfterIsAllowed(requests, user_id, current_time))
    /\ ret' = GetStatusInfo(requests, user_id, current_time)
    /\ call' = [op |-> "get_status", user_id |-> user_id,
                current_time |-> current_time]
    /\ UNCHANGED <<config, threads>>

GetStatus(user_id, current_time) ==
    /\ requests' = Store(requests, user_id,
                         Evicted(requests, user_id, current_time))
    /\ ret' = GetStatusInfo(requests, user_id, current_time)
    /\ call' = [op |-> "get_status", user_id |-> user_id,
                current_time |-> current_time]
    /\ UNCHANGED <<config, threads>>

ResetUser(user_id) ==
    /\ requests' = Discard(requests, user_id)
    /\ ret' = None
    /\ call' = [op |-> "reset_user", user_id |-> user_id]
    /\ UNCHANGED <<config, threads>>

\* faulty variant: deleting while iterating stops after the first key
ResetAllFirstKey ==
    /\ requests' = IF DOMAIN requests = {} THEN requests
                   ELSE Discard(requests, CHOOSE u \in DOMAIN requests : TRUE)
    /\ ret' = None
    /\ call' = [op |-> "reset_all"]
    /\ UNCHANGED <<config, threads>>

ResetAll ==
    /\ requests' = Cleared
    /\ ret' = None
    /\ call' = [op |-> "reset_all"]
    /\ UNCHANGED <<config, threads>>

---------------------------------------------------------------------------
(* History variables: what an observer of the calls and their results notes *)

Timed(op) == op \in {"is_allowed", "get_status"}

\* admitted: a timestamp enters on allowed=true, a discard of the record empties it
NoteAdmitted ==
    admitted' =
        CASE call'.op = "is_allowed" ->
                 IF ret'.allowed
                 THEN [admitted EXCEPT ![call'.user_id] = @ \cup {call'.current_time}]
                 ELSE admitted
          [] call'.op = "reset_user" -> [admitted EXCEPT ![call'.user_id] = {}]
          [] call'.op = "reset_all" -> [u \in Keys |-> {}]
          [] OTHER -> admitted

\* solo[u]: the key map of a second limiter that is sent the calls on u, and
\* reset_all, and nothing else
NoteSolo ==
    solo' =
        CASE call'.op = "is_allowed" ->
                 [solo EXCEPT ![call'.user_id] =
                     Store(@, call'.user_id,
                           AfterIsAllowed(@, call'.user_id, call'.current_time))]
          [] call'.op = "get_status" ->
                 [solo EXCEPT ![call'.user_id] =
                     Store(@, call'.user_id,
                           Evicted(@, call'.user_id, call'.current_time))]
          [] call'.op = "reset_user" ->
                 [solo EXCEPT ![call'.user_id] = Discard(@, call'.user_id)]
          [] OTHER -> [u \in Keys |-> Cleared]

\* granted: the admitted timestamps in the order of admission
NoteGranted ==
    granted' =
        CASE call'.op = "is_allowed" ->
                 IF ret'.allowed
                 THEN [granted EXCEPT ![call'.user_id] = Append(@, call'.current_time)]
                 ELSE granted
          [] call'.op = "reset_user" -> [granted EXCEPT ![call'.user_id] = <<>>]
          [] call'.op = "reset_all" -> [u \in Keys |-> <<>>]
          [] OTHER -> granted

\* streak[u]: n is_allowed calls on u, the first at time first, and no other
\* call on u, since u had no record; n = -1 once that is no longer so or the
\* run is longer than max_requests + 1 calls
Fresh  == [n |-> 0, first |-> 0]
Broken == [n |-> -1, first |-> 0]

NoteStreak ==
    streak' =
        CASE call'.op = "is_allowed" ->
                 [streak EXCEPT ![call'.user_id] =
                     IF @.n = 0 THEN [n |-> 1, first |-> call'.current_time]
                     ELSE IF @.n \in 1 .. max_requests THEN [@ EXCEPT !.n = @ + 1]
                     ELSE Broken]
          [] call'.op = "get_status" -> [streak EXCEPT ![call'.user_id] = Broken]
          [] call'.op = "reset_user" -> [streak EXCEPT ![call'.user_id] = Fresh]
          [] OTHER -> [u \in Keys |-> Fresh]

\* latest: the timestamp the caller supplied last, per key
NoteLatest ==
    latest' = IF Timed(call'.op)
              THEN [latest EXCEPT ![call'.user_id] = call'.current_time]
              ELSE latest

\* dropped: what the last call removed, by eviction or by reset
RECURSIVE Entries(_)
Entries(reqs) ==
    IF DOMAIN reqs = {} THEN 0
    ELSE LET u == CHOOSE v \in DOMAIN reqs : TRUE
         IN  Len(reqs[u]) + Entries([v \in DOMAIN reqs \ {u} |-> reqs[v]])

Nothing == [keys |-> 0, entries |-> 0]

NoteDropped ==
    dropped' =
        [keys |-> Cardinality(DOMAIN requests \ DOMAIN requests'),
         entries |-> Entries(requests) - Entries(requests')
                     + IF call'.op = "is_allowed" /\ ret'.allowed THEN 1 ELSE 0]

---------------------------------------------------------------------------
(* Initial state: a limiter just constructed, no key recorded *)

Init ==
    /\ constructed = TRUE
    /\ max_requests \in 1 .. MaxQuota
    /\ window_seconds \in 1 .. MaxWindow
    /\ Constructs(max_requests, window_seconds)
    /\ requests = Cleared
    /\ call = [op |-> "init"]
    /\ ret = None
    /\ admitted = [u \in Keys |-> {}]
    /\ solo = [u \in Keys |-> Cleared]
    /\ granted = [u \in Keys |-> <<>>]
    /\ streak = [u \in Keys |-> Fresh]
    /\ latest = [u \in Keys |-> 0]
    /\ dropped = Nothing
    /\ serial = [requests |-> Cleared, ret |-> None]
    /\ lock = Free
    /\ pc = [th \in Threads |-> "idle"]
    /\ frame = [th \in Threads |-> NoFrame]
    /\ now = 0
    /\ before = [u \in Keys |-> 0]
    /\ allowedNow = [u \in Keys |-> 0]

---------------------------------------------------------------------------
(* Spec: one caller, any timestamps *)

Watch ==
    /\ NoteSolo
    /\ NoteDropped
    /\ UNCHANGED <<admitted, granted, streak, latest, serial>>

Next ==
    \/ \E u \in Keys, t \in Times : IsAllowed(u, t) /\ Watch
    \/ \E u \in Keys, t \in Times : GetStatus(u, t) /\ Watch
    \/ \E u \in Keys : ResetUser(u) /\ Watch
    \/ ResetAll /\ Watch

Spec == Init /\ [][Next]_vars

---------------------------------------------------------------------------
(* SpecNew: the constructor is called until it returns an instance, which *)
(* one caller then uses with any timestamps                               *)

InitNew ==
    /\ constructed = FALSE
    /\ max_requests = None
    /\ window_seconds = None
    /\ requests = None
    /\ lock = None
    /\ call = [op |-> "none"]
    /\ ret = None
    /\ admitted = [u \in Keys |-> {}]
    /\ solo = [u \in Keys |-> Cleared]
    /\ granted = [u \in Keys |-> <<>>]
    /\ streak = [u \in Keys |-> Fresh]
    /\ latest = [u \in Keys |-> 0]
    /\ dropped = Nothing
    /\ serial = [requests |-> Cleared, ret |-> None]
    /\ pc = [th \in Threads |-> "idle"]
    /\ frame = [th \in Threads |-> NoFrame]
    /\ now = 0
    /\ before = [u \in Keys |-> 0]
    /\ allowedNow = [u \in Keys |-> 0]

NextNew ==
    \/ \E mr \in MinArg .. MaxQuota, ws \in MinArg .. MaxWindow : New(mr, ws)
    \/ \E u \in Keys, t \in Times :
           constructed /\ IsAllowed(u, t) /\ UNCHANGED history
    \/ \E u \in Keys, t \in Times :
           constructed /\ GetStatus(u, t) /\ UNCHANGED history
    \/ \E u \in Keys : constructed /\ ResetUser(u) /\ UNCHANGED history
    \/ constructed /\ ResetAll /\ UNCHANGED history

SpecNew == InitNew /\ [][NextNew]_vars

---------------------------------------------------------------------------
(* SpecQuota: one caller of a limiter that is either a small one, called  *)
(* with any timestamps, or the limiter of the tests, max_requests = 5 and *)
(* window_seconds = 60, called at time 0                                  *)

InitQuota ==
    /\ constructed = TRUE
    /\ \E limits \in ((1 .. MaxQuota) \X (1 .. MaxWindow))
                      \cup {<<ExampleQuota, Seconds(ExampleWindow)>>} :
           /\ max_requests = limits[1]
           /\ window_seconds = limits[2]
    /\ Constructs(max_requests, window_seconds)
    /\ requests = Cleared
    /\ call = [op |-> "init"]
    /\ ret = None
    /\ admitted = [u \in Keys |-> {}]
    /\ solo = [u \in Keys |-> Cleared]
    /\ granted = [u \in Keys |-> <<>>]
    /\ streak = [u \in Keys |-> Fresh]
    /\ latest = [u \in Keys |-> 0]
    /\ dropped = Nothing
    /\ serial = [requests |-> Cleared, ret |-> None]
    /\ lock = Free
    /\ pc = [th \in Threads |-> "idle"]
    /\ frame = [th \in Threads |-> NoFrame]
    /\ now = 0
    /\ before = [u \in Keys |-> 0]
    /\ allowedNow = [u \in Keys |-> 0]

\* the timestamps the caller supplies
CallTimes == IF max_requests = ExampleQuota THEN {0} ELSE Times

NextQuota ==
    \/ \E u \in Keys, t \in CallTimes : IsAllowed(u, t) /\ UNCHANGED history
    \/ \E u \in Keys, t \in CallTimes : GetStatus(u, t) /\ UNCHANGED history
    \/ \E u \in Keys : ResetUser(u) /\ UNCHANGED history
    \/ ResetAll /\ UNCHANGED history

SpecQuota == InitQuota /\ [][NextQuota]_vars

---------------------------------------------------------------------------
(* SpecAdmit: one caller, any timestamps, the admitted timestamps noted *)

WatchAdmit ==
    /\ NoteAdmitted
    /\ UNCHANGED <<solo, granted, streak, latest, dropped, serial>>

NextAdmit ==
    \/ \E u \in Keys, t \in Times : IsAllowed(u, t) /\ WatchAdmit
    \/ \E u \in Keys, t \in Times : GetStatus(u, t) /\ WatchAdmit
    \/ \E u \in Keys : ResetUser(u) /\ WatchAdmit
    \/ ResetAll /\ WatchAdmit

SpecAdmit == Init /\ [][NextAdmit]_vars

---------------------------------------------------------------------------
(* SpecMono: one caller whose timestamps never go back on a key *)

WatchMono ==
    /\ NoteGranted
    /\ NoteStreak
    /\ NoteLatest
    /\ UNCHANGED <<admitted, solo, dropped, serial>>

NextMono ==
    \/ \E u \in Keys, t \in Times :
           t >= latest[u] /\ IsAllowed(u, t) /\ WatchMono
    \/ \E u \in Keys, t \in Times :
           t >= latest[u] /\ GetStatus(u, t) /\ WatchMono
    \/ \E u \in Keys : ResetUser(u) /\ WatchMono
    \/ ResetAll /\ WatchMono

SpecMono == Init /\ [][NextMono]_vars

-----------------------------------------------------------------------------------------------------------------------------------------------------------------------------------------------------------------------
(* The methods run by concurrent threads, one statement at a time; the   *)
(* statements is_allowed and get_status have in common are one action    *)

\* a caller enters is_allowed(user_id, current_time)
CallIsAllowed(th, user_id, current_time) ==
    /\ pc[th] = "idle"
    /\ frame' = [frame EXCEPT ![th] =
                    [NoFrame EXCEPT !.op = "is_allowed",
                                    !.user_id = user_id,
                                    !.current_time = current_time]]
    /\ pc' = [pc EXCEPT ![th] = "acquire"]
    /\ UNCHANGED <<config, program, history, lock, now, before, allowedNow>>

\* the first statement of the with block of a method
Entered(op) == IF Timed(op) THEN "lookup" ELSE "reset"

\* faulty variant: the lock is taken without waiting for it
AcquireNoWait(th) ==
    /\ pc[th] = "acquire"
    /\ lock' = th
    /\ pc' = [pc EXCEPT ![th] = Entered(frame[th].op)]
    /\ UNCHANGED <<config, program, history, frame, now, before, allowedNow>>

\* faulty variant: the with statement does not wait for the lock
LockNoWait(th) ==
    /\ pc[th] = "acquire"
    /\ lock' = th
    /\ pc' = [pc EXCEPT ![th] = Entered(frame[th].op)]
    /\ UNCHANGED <<config, program, frame, now, before, allowedNow>>

\* with self._lock: blocks until the lock is free
Lock(th) ==
    /\ pc[th] = "acquire"
    /\ lock = Free
    /\ lock' = th
    /\ pc' = [pc EXCEPT ![th] = Entered(frame[th].op)]
    /\ UNCHANGED <<config, program, frame, now, before, allowedNow>>

Acquire(th) == Lock(th) /\ UNCHANGED history

\* user_requests = self._requests[user_id]; cutoff_time = ...
LookupStep(th) ==
    /\ pc[th] = "lookup"
    /\ requests' = Store(requests, frame[th].user_id,
                         Lookup(requests, frame[th].user_id))
    /\ frame' = [frame EXCEPT ![th].cutoff_time =
                    frame[th].current_time - window_seconds]
    /\ pc' = [pc EXCEPT ![th] = "evict"]
    /\ UNCHANGED <<config, call, ret, history, lock, now, before, allowedNow>>

\* while user_requests and user_requests[0] < cutoff_time: popleft()
EvictStep(th) ==
    /\ pc[th] = "evict"
    /\ LET u == frame[th].user_id
       IN  IF requests[u] # <<>> /\ Head(requests[u]) < frame[th].cutoff_time
           THEN /\ requests' = [requests EXCEPT ![u] = Tail(@)]
                /\ UNCHANGED pc
           ELSE /\ pc' = [pc EXCEPT ![th] = "count"]
                /\ UNCHANGED requests
    /\ UNCHANGED <<config, call, ret, history, lock, frame, now, before, allowedNow>>

\* request_count = len(user_requests)
CountStep(th) ==
    /\ pc[th] = "count"
    /\ frame' = [frame EXCEPT ![th].request_count =
                    Len(requests[frame[th].user_id])]
    /\ pc' = [pc EXCEPT ![th] =
                 IF frame[th].op = "is_allowed" THEN "decide" ELSE "status"]
    /\ UNCHANGED <<config, program, history, lock, now, before, allowedNow>>

\* if request_count >= self.max_requests: ... else: append; the result is built
Decide(th) ==
    /\ pc[th] = "decide"
    /\ LET u == frame[th].user_id
           t == frame[th].current_time
           n == frame[th].request_count
       IN  IF n >= max_requests
           THEN /\ frame' = [frame EXCEPT ![th].ret =
                       IF requests[u] = <<>>
                       THEN [raises |-> "IndexError"]
                       ELSE
                       [allowed |-> FALSE,
                        user_id |-> u,
                        current_requests |-> n,
                        max_requests |-> max_requests,
                        window_seconds |-> window_seconds,
                        time_until_reset |->
                            Round2(window_seconds - (t - Head(requests[u]))),
                        message |-> "Rate limit exceeded"]]
                /\ UNCHANGED requests
           ELSE /\ requests' = [requests EXCEPT ![u] = Append(@, t)]
                /\ frame' = [frame EXCEPT ![th].ret =
                       [allowed |-> TRUE,
                        user_id |-> u,
                        current_requests |-> n + 1,
                        max_requests |-> max_requests,
                        window_seconds |-> window_seconds,
                        remaining_requests |-> max_requests - (n + 1),
                        message |-> "Request allowed"]]
    /\ pc' = [pc EXCEPT ![th] = "release"]
    /\ UNCHANGED <<config, call, ret, history, lock, now, before>>

\* allowedNow: an admission with the timestamp the callers share is counted
NoteAllowedNow(th) ==
    allowedNow' =
        IF frame'[th].ret.allowed
        THEN [allowedNow EXCEPT ![frame[th].user_id] = @ + 1]
        ELSE allowedNow

DecideStep(th) == Decide(th) /\ NoteAllowedNow(th)

\* faulty variant: the lock is not released on the way out
ReleaseKeepsLock(th) ==
    /\ pc[th] = "release"
    /\ pc' = [pc EXCEPT ![th] = "idle"]
    /\ frame' = [frame EXCEPT ![th] = NoFrame]
    /\ UNCHANGED <<config, program, history, lock, now, before, allowedNow>>

\* the with block is left, by return or by an exception: the lock is
\* released and the result returned
Release(th) ==
    /\ pc[th] = "release"
    /\ lock' = Free
    /\ pc' = [pc EXCEPT ![th] = "idle"]
    /\ frame' = [frame EXCEPT ![th] = NoFrame]
    /\ UNCHANGED <<config, program, history, now, before, allowedNow>>

\* no call is running, and the callers take up a later timestamp
Advance(t) ==
    /\ \A th \in Threads : pc[th] = "idle"
    /\ t > now
    /\ now' = t
    /\ before' = [u \in Keys |->
                     Len(Evict(Lookup(requests, u), t - window_seconds))]
    /\ allowedNow' = [u \in Keys |-> 0]
    /\ UNCHANGED <<config, program, history, lock, pc, frame>>

---------------------------------------------------------------------------
(* SpecSame: threads that call is_allowed concurrently, all with the *)
(* timestamp now                                                      *)

NextSame ==
    \/ \E th \in Threads, u \in Keys : CallIsAllowed(th, u, now)
    \/ \E th \in Threads : Acquire(th)
    \/ \E th \in Threads : LookupStep(th)
    \/ \E th \in Threads : EvictStep(th)
    \/ \E th \in Threads : CountStep(th)
    \/ \E th \in Threads : DecideStep(th)
    \/ \E th \in Threads : Release(th)
    \/ \E t \in Times : Advance(t)

SpecSame == Init /\ [][NextSame]_vars

---------------------------------------------------------------------------
(* SpecClock: threads that call is_allowed concurrently without a         *)
(* timestamp, each call reading the system clock, which never goes back   *)

\* a caller enters is_allowed(user_id): current_time is None
CallIsAllowedUntimed(th, user_id) ==
    /\ pc[th] = "idle"
    /\ frame' = [frame EXCEPT ![th] =
                    [NoFrame EXCEPT !.op = "is_allowed",
                                    !.user_id = user_id,
                                    !.current_time = None]]
    /\ pc' = [pc EXCEPT ![th] = "clock"]
    /\ UNCHANGED <<config, program, history, lock, now, before, allowedNow>>

\* if current_time is None: current_time = time.time(), before the lock
ReadClock(th) ==
    /\ pc[th] = "clock"
    /\ frame' = [frame EXCEPT ![th].current_time = now]
    /\ pc' = [pc EXCEPT ![th] = "acquire"]
    /\ UNCHANGED <<config, program, history, lock, now, before, allowedNow>>

\* time passes, whatever the threads are doing
Tick ==
    /\ now < MaxTime
    /\ now' = now + 1
    /\ UNCHANGED <<config, program, history, lock, pc, frame, before, allowedNow>>

NextClock ==
    \/ \E th \in Threads, u \in Keys : CallIsAllowedUntimed(th, u)
    \/ \E th \in Threads : ReadClock(th)
    \/ \E th \in Threads : Acquire(th)
    \/ \E th \in Threads : LookupStep(th)
    \/ \E th \in Threads : EvictStep(th)
    \/ \E th \in Threads : CountStep(th)
    \/ \E th \in Threads : Decide(th) /\ UNCHANGED allowedNow
    \/ \E th \in Threads : Release(th)
    \/ Tick

SpecClock == Init /\ [][NextClock]_vars

---------------------------------------------------------------------------
(* SpecThreads: threads that call the four methods concurrently, with any *)
(* timestamps, under a scheduler that is fair to every thread             *)

\* a caller enters get_status(user_id, current_time)
CallGetStatus(th, user_id, current_time) ==
    /\ pc[th] = "idle"
    /\ frame' = [frame EXCEPT ![th] =
                    [NoFrame EXCEPT !.op = "get_status",
                                    !.user_id = user_id,
                                    !.current_time = current_time]]
    /\ pc' = [pc EXCEPT ![th] = "acquire"]
    /\ UNCHANGED <<config, program, history, lock, now, before, allowedNow>>

\* a caller enters reset_user(user_id)
CallResetUser(th, user_id) ==
    /\ pc[th] = "idle"
    /\ frame' = [frame EXCEPT ![th] =
                    [NoFrame EXCEPT !.op = "reset_user", !.user_id = user_id]]
    /\ pc' = [pc EXCEPT ![th] = "acquire"]
    /\ UNCHANGED <<config, program, history, lock, now, before, allowedNow>>

\* a caller enters reset_all()
CallResetAll(th) ==
    /\ pc[th] = "idle"
    /\ frame' = [frame EXCEPT ![th] = [NoFrame EXCEPT !.op = "reset_all"]]
    /\ pc' = [pc EXCEPT ![th] = "acquire"]
    /\ UNCHANGED <<config, program, history, lock, now, before, allowedNow>>

\* get_status after the loop: time_until_reset and the dict returned
StatusStep(th) ==
    /\ pc[th] = "status"
    /\ LET u == frame[th].user_id
           t == frame[th].current_time
           n == frame[th].request_count
           time_until_reset ==
               IF requests[u] # <<>>
               THEN Max(0, window_seconds - (t - Head(requests[u])))
               ELSE 0
       IN  frame' = [frame EXCEPT ![th].ret =
                        [user_id |-> u,
                         current_requests |-> n,
                         max_requests |-> max_requests,
                         window_seconds |-> window_seconds,
                         remaining_requests |-> max_requests - n,
                         time_until_reset |-> Round2(time_until_reset),
                         is_allowed |-> n < max_requests]]
    /\ pc' = [pc EXCEPT ![th] = "release"]
    /\ UNCHANGED <<config, program, history, lock, now, before, allowedNow>>

\* reset_user: if user_id in self._requests: del self._requests[user_id]
ResetUserStep(th) ==
    /\ pc[th] = "reset"
    /\ frame[th].op = "reset_user"
    /\ requests' = Discard(requests, frame[th].user_id)
    /\ pc' = [pc EXCEPT ![th] = "release"]
    /\ UNCHANGED <<config, call, ret, history, lock, frame, now, before, allowedNow>>

\* reset_all: self._requests.clear()
ResetAllStep(th) ==
    /\ pc[th] = "reset"
    /\ frame[th].op = "reset_all"
    /\ requests' = Cleared
    /\ pc' = [pc EXCEPT ![th] = "release"]
    /\ UNCHANGED <<config, call, ret, history, lock, frame, now, before, allowedNow>>

\* the statements a thread runs while it holds the lock
Body(th) ==
    \/ LookupStep(th)
    \/ EvictStep(th)
    \/ CountStep(th)
    \/ Decide(th) /\ UNCHANGED allowedNow
    \/ StatusStep(th)
    \/ ResetUserStep(th)
    \/ ResetAllStep(th)
    \/ Release(th)

\* the key the threads contend for, and the timestamps they supply: the
\* earliest and the latest
ThreadKeys == {"alice"}
ThreadTimes == {0, MaxTime}

NextThreads ==
    \/ \E th \in Threads, u \in ThreadKeys, t \in ThreadTimes :
           CallIsAllowed(th, u, t)
    \/ \E th \in Threads, u \in ThreadKeys, t \in ThreadTimes :
           CallGetStatus(th, u, t)
    \/ \E th \in Threads, u \in ThreadKeys : CallResetUser(th, u)
    \/ \E th \in Threads : CallResetAll(th)
    \/ \E th \in Threads : Acquire(th)
    \/ \E th \in Threads : Body(th)

\* a running thread is given its next step, and a thread that waits for the
\* lock gets it if the lock is free again and again
Fairness ==
    \A th \in Threads : WF_vars(Body(th)) /\ SF_vars(Acquire(th))

SpecThreads == Init /\ [][NextThreads]_vars /\ Fairness

---------------------------------------------------------------------------
(* SpecSerial: threads that call the four methods concurrently with the   *)
(* timestamps they choose, beside a limiter that is sent the same calls   *)
(* one at a time, each when its thread takes the lock                     *)

\* serial: the call of the thread that takes the lock, run as one step
NoteSerial(th) ==
    LET op == frame[th].op
        u == frame[th].user_id
        t == frame[th].current_time
        reqs == serial.requests
    IN  serial' =
            CASE op = "is_allowed" ->
                     [requests |-> Store(reqs, u, AfterIsAllowed(reqs, u, t)),
                      ret |-> IsAllowedInfo(reqs, u, t)]
              [] op = "get_status" ->
                     [requests |-> Store(reqs, u, Evicted(reqs, u, t)),
                      ret |-> GetStatusInfo(reqs, u, t)]
              [] op = "reset_user" ->
                     [requests |-> Discard(reqs, u), ret |-> None]
              [] OTHER ->
                     [requests |-> Cleared, ret |-> None]

WatchSerial(th) ==
    /\ NoteSerial(th)
    /\ UNCHANGED <<admitted, solo, granted, streak, latest, dropped>>

NextSerial ==
    \/ \E th \in Threads, u \in ThreadKeys, t \in ThreadTimes :
           CallIsAllowed(th, u, t)
    \/ \E th \in Threads, u \in ThreadKeys, t \in ThreadTimes :
           CallGetStatus(th, u, t)
    \/ \E th \in Threads, u \in ThreadKeys : CallResetUser(th, u)
    \/ \E th \in Threads : CallResetAll(th)
    \/ \E th \in Threads : Lock(th) /\ WatchSerial(th)
    \/ \E th \in Threads : Body(th)

SpecSerial == Init /\ [][NextSerial]_vars

---------------------------------------------------------------------------
(* Properties *)

\* the number of timestamps of a log that lie in [lo, hi)
CountIn(log, lo, hi) ==
    Cardinality({i \in DOMAIN log : log[i] >= lo /\ log[i] < hi})

\* the record of one key, as a key map of its own
KeyView(reqs, u) == [v \in DOMAIN reqs \cap {u} |-> reqs[v]]

\* C1: with non-decreasing timestamps on a key, the calls admitted on it
\* (since its record was last discarded) with a timestamp in any half-open
\* interval [t, t + window_seconds) number at most max_requests.
C1_SlidingWindow ==
    \A u \in Keys, t \in Times :
        CountIn(granted[u], t, t + window_seconds) <= max_requests

\* a call is rejected on a key that has been admitted more often than the
\* quota, so that earlier admissions have aged out of the window
C1_Witness ==
    /\ call.op = "is_allowed"
    /\ ~ret.allowed
    /\ Len(granted[call.user_id]) > max_requests
    /\ max_requests >= 2

\* the threads between taking the lock and releasing it
Inside == {th \in Threads : pc[th] \in {"lookup", "evict", "count", "decide", "release"}}

\* C2: threads calling is_allowed concurrently with one timestamp: at most
\* one of them is between evicting and appending at a time, and on a key
\* with c unexpired entries beforehand at most max_requests - c of the calls
\* are admitted, a key never holding more than max_requests entries.
C2_Serialized ==
    /\ Cardinality(Inside) <= 1
    /\ \A th \in Inside : lock = th
    /\ \A u \in Keys :
           /\ allowedNow[u] <= max_requests - before[u]
           /\ Len(Lookup(requests, u)) <= max_requests

\* with one entry left from before, one call has been admitted and the next
\* is rejected, while another thread waits for the lock with a call on the
\* same key
C2_Witness ==
    \E th \in Threads, other \in Threads :
        /\ pc[th] = "release"
        /\ ~frame[th].ret.allowed
        /\ pc[other] = "acquire"
        /\ frame[other].user_id = frame[th].user_id
        /\ before[frame[th].user_id] = 1
        /\ allowedNow[frame[th].user_id] = max_requests - 1
        /\ max_requests >= 2

\* C3: on a fresh key, consecutive is_allowed calls at non-decreasing
\* timestamps no further than window_seconds from the first: the k-th is
\* admitted with current_requests = k for k = 1..max_requests, and call
\* max_requests + 1 is rejected with current_requests = max_requests.
C3_FreshKeyQuota ==
    call.op = "is_allowed" =>
        LET s == streak[call.user_id]
        IN  (s.n >= 1 /\ call.current_time - s.first <= window_seconds) =>
                /\ s.n <= max_requests =>
                       ret.allowed /\ ret.current_requests = s.n
                /\ s.n = max_requests + 1 =>
                       ~ret.allowed /\ ret.current_requests = max_requests

C3_Witness ==
    /\ call.op = "is_allowed"
    /\ streak[call.user_id].n = max_requests + 1
    /\ max_requests >= 2
    /\ call.current_time > streak[call.user_id].first
    /\ call.current_time - streak[call.user_id].first <= window_seconds
    /\ ~ret.allowed

\* a key is exhausted: an is_allowed at the time of the last call on it is rejected
Exhausted(u) ==
    /\ u \in DOMAIN requests
    /\ ~IsAllowedInfo(requests, u, latest[u]).allowed

\* C4: with non-decreasing timestamps, an is_allowed on an exhausted key at
\* a time more than window_seconds after the first admitted request (the
\* oldest of the admitted requests that exhaust the quota) is admitted, and
\* its current_requests is 1 plus the number of earlier admitted timestamps
\* that are >= now - window_seconds.
C4_WindowReset ==
    [][\A u \in Keys :
          ( /\ Exhausted(u)
            /\ call'.op = "is_allowed"
            /\ call'.user_id = u
            /\ call'.current_time > Head(requests[u]) + window_seconds )
          => /\ ret'.allowed
             /\ ret'.current_requests =
                    1 + CountIn(granted[u],
                                call'.current_time - window_seconds,
                                MaxTime + 1)]_vars

\* the quota was used up within one window, and the call after it, later
\* than a window after the first admission, is admitted beside a survivor
C4_Witness ==
    /\ call.op = "is_allowed"
    /\ ret.allowed
    /\ ret.current_requests = 2
    /\ LET g == granted[call.user_id]
       IN  /\ Len(g) = max_requests + 1
           /\ g[max_requests] - g[1] <= window_seconds
           /\ g[Len(g)] = call.current_time
           /\ call.current_time > g[1] + window_seconds

\* C5: a call on one key leaves the record of every other key as it was,
\* and every call returns what a limiter that is sent the calls on that key
\* only (and reset_all) returns; each key's record is the record of that
\* limiter.
C5_KeysIndependent ==
    [][ /\ call'.op \in {"is_allowed", "get_status", "reset_user"} =>
               \A b \in Keys \ {call'.user_id} :
                   KeyView(requests', b) = KeyView(requests, b)
        /\ call'.op = "is_allowed" =>
               ret' = IsAllowedInfo(solo[call'.user_id], call'.user_id,
                                    call'.current_time)
        /\ call'.op = "get_status" =>
               ret' = GetStatusInfo(solo[call'.user_id], call'.user_id,
                                    call'.current_time)
        /\ \A u \in Keys : KeyView(requests', u) = solo'[u] ]_vars

\* one key is exhausted at the time another key is admitted
C5_Witness ==
    /\ call.op = "is_allowed"
    /\ ret.allowed
    /\ \E a \in Keys \ {call.user_id} :
           /\ a \in DOMAIN requests
           /\ ~IsAllowedInfo(requests, a, call.current_time).allowed

\* the answers of is_allowed on two records of a key agree for every run of
\* n further is_allowed calls, the first at a time >= floor (equal records
\* answer alike)
Horizon == 2

RECURSIVE SameAnswers(_, _, _, _)
SameAnswers(q1, q2, floor, n) ==
    \/ n = 0
    \/ q1 = q2
    \/ \A t \in floor .. MaxTime :
           LET e1 == Evict(q1, t - window_seconds)
               e2 == Evict(q2, t - window_seconds)
           IN  /\ Rejects(e1) = Rejects(e2)
               /\ SameAnswers(IF Rejects(e1) THEN e1 ELSE Append(e1, t),
                              IF Rejects(e2) THEN e2 ELSE Append(e2, t),
                              0, n - 1)

\* C6 as stated: whatever the timestamps, the is_allowed calls after a
\* get_status are answered as they would be without it.
C6_StatusAnyTime ==
    [][call'.op = "get_status" =>
          \A u \in Keys :
              SameAnswers(Lookup(requests, u), Lookup(requests', u),
                          0, Horizon)]_vars

\* C6 amended: the is_allowed calls after a get_status(k, s) are answered as
\* they would be without it, provided the next is_allowed on k comes with a
\* timestamp >= s.
C6_StatusKeepsAnswers ==
    [][call'.op = "get_status" =>
          \A u \in Keys :
              SameAnswers(Lookup(requests, u), Lookup(requests', u),
                          IF u = call'.user_id THEN call'.current_time ELSE 0,
                          Horizon)]_vars

\* a get_status has evicted expired timestamps of a key and left one
C6_Witness ==
    /\ call.op = "get_status"
    /\ dropped.entries >= 1
    /\ ret.current_requests >= 1

\* C7: reset_user(k) removes k's record, so that an is_allowed on k at any
\* time is then admitted with current_requests = 1, as is the call that
\* follows; every other key's record is unchanged, and with no record for k
\* nothing changes.
C7_ResetUser ==
    [][ /\ call'.op = "reset_user" =>
            LET k == call'.user_id
            IN  /\ k \notin DOMAIN requests'
                /\ \A t \in Times :
                       LET info == IsAllowedInfo(requests', k, t)
                       IN  info.allowed /\ info.current_requests = 1
                /\ \A b \in Keys \ {k} :
                       KeyView(requests', b) = KeyView(requests, b)
                /\ k \notin DOMAIN requests => requests' = requests
        /\ ( /\ call.op = "reset_user"
             /\ call'.op = "is_allowed"
             /\ call'.user_id = call.user_id )
           => ret'.allowed /\ ret'.current_requests = 1 ]_vars

\* an exhausted key has been reset while the other key keeps its record
C7_Witness ==
    /\ call.op = "reset_user"
    /\ dropped.keys = 1
    /\ dropped.entries = max_requests
    /\ max_requests >= 2
    /\ \E b \in DOMAIN requests : requests[b] # <<>>

\* C8: reset_all removes every key's record, so that an is_allowed on any
\* key at any time is then admitted, as is the call that follows; no
\* operation changes max_requests or window_seconds.
C8_ResetAll ==
    [][ /\ call'.op = "reset_all" =>
            /\ DOMAIN requests' = {}
            /\ \A u \in Keys, t \in Times :
                   IsAllowedInfo(requests', u, t).allowed
        /\ (call.op = "reset_all" /\ call'.op = "is_allowed") => ret'.allowed
        /\ max_requests' = max_requests
        /\ window_seconds' = window_seconds ]_vars

\* two exhausted keys have been reset at once
C8_Witness ==
    /\ call.op = "reset_all"
    /\ dropped.keys = 2
    /\ dropped.entries = 2 * max_requests
    /\ max_requests >= 2

\* C9: a rejected is_allowed leaves the key's sequence as it was but for
\* the expired front entries, and every stored timestamp is the timestamp
\* of an earlier admitted call on that key.
C9_OnlyAdmittedRecorded ==
    [][ /\ (call'.op = "is_allowed" /\ ~ret'.allowed) =>
               requests'[call'.user_id] =
                   Evicted(requests, call'.user_id, call'.current_time)
        /\ \A u \in DOMAIN requests' :
               \A i \in DOMAIN requests'[u] :
                   requests'[u][i] \in admitted'[u] ]_vars

\* a call is rejected at a time at which no call on the key was admitted
C9_Witness ==
    /\ call.op = "is_allowed"
    /\ ~ret.allowed
    /\ call.current_time \notin admitted[call.user_id]

\* C10: after a rejected is_allowed(k, now) that reports time_until_reset =
\* d, the is_allowed(k, now + d) that follows is admitted.
C10_RetryAfterReset ==
    [][ ( /\ call.op = "is_allowed"
          /\ ~ret.allowed
          /\ call'.op = "is_allowed"
          /\ call'.user_id = call.user_id
          /\ call'.current_time = call.current_time + ret.time_until_reset )
        => ret'.allowed ]_vars

\* C11: get_status(k, now) reports as current_requests the number of entries
\* left after eviction, remaining_requests = max_requests - current_requests
\* and is_allowed = (current_requests < max_requests); with one caller,
\* is_allowed is true exactly when an is_allowed(k, now) made right after it
\* is admitted.
C11_StatusReport ==
    [][ /\ call'.op = "get_status" =>
            LET k == call'.user_id
                left == Evict(Lookup(requests, k),
                              call'.current_time - window_seconds)
            IN  /\ requests'[k] = left
                /\ ret'.current_requests = Len(left)
                /\ ret'.remaining_requests = max_requests - Len(left)
                /\ ret'.is_allowed = (Len(left) < max_requests)
                /\ ret'.is_allowed =
                       IsAllowedInfo(requests', k, call'.current_time).allowed
        /\ ( /\ call.op = "get_status"
             /\ call'.op = "is_allowed"
             /\ call'.user_id = call.user_id
             /\ call'.current_time = call.current_time )
           => ret'.allowed = ret.is_allowed ]_vars

\* the status of a key whose quota of two or more is used up and whose
\* oldest entry has not reached the end of the window
C11_Witness ==
    /\ call.op = "get_status"
    /\ ~ret.is_allowed
    /\ ret.remaining_requests = 0
    /\ ret.time_until_reset > 0
    /\ max_requests >= 2

\* C12: RateLimiter(mr, ws) fails with an error and creates no instance
\* exactly when mr <= 0 or ws <= 0; with both positive it returns an
\* instance with max_requests = mr, window_seconds = ws and an empty key map.
C12_Construction ==
    [][ (call'.op = "new" /\ ~constructed) =>
            LET mr == call'.max_requests
                ws == call'.window_seconds
                failed == "raises" \in DOMAIN ret'
            IN  /\ failed <=> (mr <= 0 \/ ws <= 0)
                /\ failed =>
                       /\ ret'.raises = "ValueError"
                       /\ ~constructed'
                       /\ UNCHANGED <<max_requests, window_seconds, requests>>
                /\ ~failed =>
                       /\ constructed'
                       /\ max_requests' = mr
                       /\ window_seconds' = ws
                       /\ requests' = Cleared
                       /\ DOMAIN requests' = {} ]_vars

\* the constructor has failed on a window of 0 or less, the quota positive
C12_Witness ==
    /\ call.op = "new"
    /\ ~constructed
    /\ "raises" \in DOMAIN ret
    /\ call.max_requests > 0
    /\ call.window_seconds <= 0

\* the calls made on an instance
Operations == {"is_allowed", "get_status", "reset_user", "reset_all"}

\* C13: on a constructed limiter no call of is_allowed, get_status,
\* reset_user or reset_all fails, whatever the key, the timestamp and the
\* calls before it; for every key and timestamp, a sequence that is_allowed
\* would reject after eviction is not empty where its oldest entry is read.
C13_NeverFails ==
    constructed =>
        /\ call.op \in Operations => "raises" \notin DOMAIN ret
        /\ \A u \in Keys, t \in Times :
               LET q == Evicted(requests, u, t)
               IN  Rejects(q) => q # <<>>

\* a call is rejected on one key, its oldest entry read, while the other
\* key has no record
C13_Witness ==
    /\ constructed
    /\ call.op = "is_allowed"
    /\ ~ret.allowed
    /\ ret.current_requests = max_requests
    /\ \E b \in Keys : b \notin DOMAIN requests

\* a sequence of timestamps that never goes back, the oldest first
NonDecreasing(q) == \A i \in 1 .. Len(q) - 1 : q[i] <= q[i + 1]

\* C14: with concurrent callers of is_allowed that supply no timestamp, each
\* call reading a clock that never goes back, every key's stored sequence
\* is non-decreasing in every reachable state.
C14_ClockOrdered ==
    \A u \in DOMAIN requests : NonDecreasing(requests[u])

\* C15: after any sequence of is_allowed, get_status, reset_user and
\* reset_all calls with any timestamps, out of order or not, each key's
\* sequence holds at most max_requests timestamps, every reported
\* current_requests lies in 0..max_requests and every reported
\* remaining_requests is >= 0.
C15_Bounded ==
    /\ \A u \in DOMAIN requests : Len(requests[u]) <= max_requests
    /\ Timed(call.op) =>
           /\ ret.current_requests \in 0 .. max_requests
           /\ "remaining_requests" \in DOMAIN ret => ret.remaining_requests >= 0

\* the status of a key whose record is full and out of order
C15_Witness ==
    /\ call.op = "get_status"
    /\ ret.current_requests = max_requests
    /\ ret.remaining_requests = 0
    /\ max_requests >= 2
    /\ ~NonDecreasing(requests[call.user_id])

\* C16: with one caller and non-decreasing timestamps of the is_allowed and
\* get_status calls on a key, the key's stored sequence is non-decreasing,
\* its oldest entry first, in every reachable state.
C16_MonoOrdered ==
    \A u \in Keys :
        LET q == Lookup(requests, u)
        IN  /\ NonDecreasing(q)
            /\ \A i \in DOMAIN q : Head(q) <= q[i]

\* a record holds an older and a newer timestamp, and a status query later
\* than both has left them in place
C16_Witness ==
    /\ call.op = "get_status"
    /\ LET q == requests[call.user_id]
       IN  /\ Len(q) >= 2
           /\ q[1] < q[Len(q)]
           /\ q[Len(q)] < call.current_time

\* C17: with non-decreasing timestamps on a key, after an is_allowed or
\* get_status call at time now no timestamp left in the key's sequence is
\* less than now - window_seconds, and the entries removed are exactly the
\* entries less than that cutoff: an entry equal to the cutoff is kept and
\* counted.
C17_CutoffExact ==
    [][Timed(call'.op) =>
          LET k == call'.user_id
              cutoff == call'.current_time - window_seconds
              old == Lookup(requests, k)
              new == requests'[k]
              kept == IF call'.op = "is_allowed" /\ ret'.allowed
                      THEN SubSeq(new, 1, Len(new) - 1)
                      ELSE new
              gone == Len(old) - Len(kept)
          IN  /\ \A i \in DOMAIN new : new[i] >= cutoff
              /\ gone >= 0
              /\ kept = SubSeq(old, gone + 1, Len(old))
              /\ \A i \in 1 .. gone : old[i] < cutoff
              /\ Len(kept) = Cardinality({i \in DOMAIN old : old[i] >= cutoff})
              /\ ret'.current_requests =
                     Len(kept) + IF call'.op = "is_allowed" /\ ret'.allowed
                                 THEN 1 ELSE 0 ]_vars

\* a call is rejected because of an entry that is exactly window_seconds old
C17_Witness ==
    /\ call.op = "is_allowed"
    /\ ~ret.allowed
    /\ Head(requests[call.user_id]) = call.current_time - window_seconds
    /\ Len(granted[call.user_id]) > Len(requests[call.user_id])

\* the least timestamp of a non-empty sequence
Oldest(q) == CHOOSE x \in {q[i] : i \in DOMAIN q} : \A i \in DOMAIN q : x <= q[i]

\* C18 as stated: every rejected is_allowed reports time_until_reset =
\* window_seconds - (now - oldest remaining timestamp), a value never
\* negative.
C18_ExactReset ==
    (call.op = "is_allowed" /\ ~ret.allowed) =>
        LET q == requests[call.user_id]
        IN  /\ ret.time_until_reset =
                   window_seconds - (call.current_time - Oldest(q))
            /\ ret.time_until_reset >= 0

\* C18 amended: every rejected is_allowed reports time_until_reset =
\* round(window_seconds - (now - front entry), 2), the front entry being the
\* oldest remaining timestamp whenever the sequence is non-decreasing;
\* neither the value nor its rounding is negative, unclamped as it is; with
\* max_requests = 5, window_seconds = 60 and five admissions at t = 0 a
\* rejected call at t = 0 reports current_requests = 5 and
\* time_until_reset = 60.
C18_TimeUntilReset ==
    (call.op = "is_allowed" /\ ~ret.allowed) =>
        LET q == requests[call.user_id]
            time_until_reset == window_seconds - (call.current_time - Head(q))
        IN  /\ q # <<>>
            /\ ret.time_until_reset = Round2(time_until_reset)
            /\ time_until_reset >= 0
            /\ ret.time_until_reset >= 0
            /\ NonDecreasing(q) => Head(q) = Oldest(q)
            /\ ( /\ max_requests = ExampleQuota
                 /\ window_seconds = Seconds(ExampleWindow)
                 /\ call.current_time = 0 )
               => /\ q = <<0, 0, 0, 0, 0>>
                  /\ ret.current_requests = ExampleQuota
                  /\ ret.time_until_reset = Seconds(ExampleWindow)

\* the limiter of the example has rejected a call at t = 0
C18_Witness ==
    /\ max_requests = ExampleQuota
    /\ window_seconds = Seconds(ExampleWindow)
    /\ call.op = "is_allowed"
    /\ call.current_time = 0
    /\ ~ret.allowed
    /\ ret.time_until_reset = Seconds(ExampleWindow)

\* C19: get_status changes the state only by removing front entries older
\* than now - window_seconds from the key it is asked about, whose record it
\* creates, empty, when there was none: it appends no timestamp, lengthens
\* no sequence and leaves every other key's sequence alone; on a key left
\* with no entries it returns current_requests = 0, remaining_requests =
\* max_requests, time_until_reset = 0 and is_allowed = true.
C19_StatusFrame ==
    [][call'.op = "get_status" =>
          LET k == call'.user_id
              cutoff == call'.current_time - window_seconds
              old == Lookup(requests, k)
              new == requests'[k]
              gone == Len(old) - Len(new)
          IN  /\ DOMAIN requests' = DOMAIN requests \cup {k}
              /\ \A b \in DOMAIN requests \ {k} : requests'[b] = requests[b]
              /\ gone >= 0
              /\ new = SubSeq(old, gone + 1, Len(old))
              /\ \A i \in 1 .. gone : old[i] < cutoff
              /\ Entries(requests') <= Entries(requests)
              /\ new = <<>> =>
                     /\ ret'.current_requests = 0
                     /\ ret'.remaining_requests = max_requests
                     /\ ret'.time_until_reset = 0
                     /\ ret'.is_allowed = TRUE ]_vars

\* a status query has emptied the record of one key by eviction while the
\* other key keeps its entries
C19_Witness ==
    /\ call.op = "get_status"
    /\ dropped.entries >= 1
    /\ requests[call.user_id] = <<>>
    /\ ret.current_requests = 0
    /\ \E b \in DOMAIN requests : requests[b] # <<>>

\* the places of a method inside its with block
Holding == {"lookup", "evict", "count", "decide", "status", "reset", "release"}

\* some step can be taken: the thread that holds the lock can go on, and
\* with the lock free every thread can take it or make a call
CanStep ==
    /\ \A th \in Threads : pc[th] \in Holding <=> lock = th
    /\ lock # Free => ENABLED Body(lock)
    /\ lock = Free =>
           \A th \in Threads : pc[th] = "acquire" => ENABLED Acquire(th)

C21_Linearizable ==
    /\ lock = Free => requests = serial.requests
    /\ \A th \in Threads :
           /\ pc[th] = "release" =>
                  /\ frame[th].ret = serial.ret
                  /\ requests = serial.requests
           /\ pc[th] \in {"evict", "count", "decide", "status"} =>
                  frame[th].user_id \in DOMAIN requests
           /\ ( /\ pc[th] = "release"
                /\ frame[th].op = "is_allowed"
                /\ frame[th].ret.allowed )
              => /\ frame[th].user_id \in DOMAIN requests
                 /\ LET q == requests[frame[th].user_id]
                    IN  q # <<>> /\ q[Len(q)] = frame[th].current_time

\* an is_allowed is about to return, admitted beside an older entry, while
\* another thread waits for the lock to reset the same key
C21_Witness ==
    \E th \in Threads, other \in Threads :
        /\ pc[th] = "release"
        /\ frame[th].op = "is_allowed"
        /\ frame[th].ret.allowed
        /\ frame[th].ret.current_requests = 2
        /\ pc[other] = "acquire"
        /\ frame[other].op = "reset_user"
        /\ frame[other].user_id = frame[th].user_id

=============================================================================
